---- MODULE Spec2Model ----
(***************************************************************************)
(* Water rocket flight simulator (main.py): WaterRocket.reset, step, run,  *)
(* and the volume clamp of App.start_simulation.                           *)
(*                                                                         *)
(* The program computes in binary floating point.  The model computes the  *)
(* same expressions, in the same order, in fixed point over the integers.  *)
(* Every quantity is an integer count of the unit listed here:             *)
(*   pressure   P, P0, P_atm             1 Pa                              *)
(*   volume     V_air, V_water, V_bottle 1e-8 m^3                          *)
(*   mass       m, m_empty               1e-5 kg                           *)
(*   mass flow  dm_dt                    1e-5 kg/s                         *)
(*   force      F_thrust, F_drag, F_net  1e-5 N                            *)
(*   exhaust    v_e                      1 cm/s                            *)
(*   accel.     a, g                     1 cm/s^2                          *)
(*   velocity   v                        1e-5 m/s                          *)
(*   height     y                        1e-6 m                            *)
(*   time       t, dt                    1 ms                              *)
(*   temperat.  T, T0                    0.1 K                             *)
(*   areas      A, A_t                   1 cm^2                            *)
(*   densities  rho_air, rho_exit 1 g/m^3 ; rho_water 1 kg/m^3             *)
(*   ratios raised to a power            1/S                               *)
(* Divisions round toward minus infinity.  A float that is NaN is the      *)
(* value NaN; comparisons with NaN are false and arithmetic on NaN gives   *)
(* NaN, as in IEEE 754.                                                    *)
(***************************************************************************)
EXTENDS Integers, Sequences, FiniteSets, TLC

\* ---------------------------------------------------------------- constants
g == 981
rho_air == 1225
rho_water == 1000
\* C_d = 0.5, in tenths
C_d == 5
A == 80
A_t == 1
m_empty == 15000
P_atm == 101325
V_bottle == 200000
\* gamma = 1.4 = gamma_num / gamma_den
gamma_num == 7
gamma_den == 5
R_specific == 287
T0 == 3000
dt == 5

\* Resolution of the ratios that are raised to a power: S = H * H.
H == 100
S == H * H

\* The result of np.sqrt on a negative argument, and everything computed
\* from it.  It lies outside the range of every number of the model.
NaN == -2000000000

\* Longest run the model follows (number of step() calls).
MaxSteps == 800

\* ------------------------------------------------------ float comparisons
Gt(x, z) == x # NaN /\ z # NaN /\ x > z
Ge(x, z) == x # NaN /\ z # NaN /\ x >= z
Lt(x, z) == x # NaN /\ z # NaN /\ x < z
Le(x, z) == x # NaN /\ z # NaN /\ x <= z

\* ------------------------------------------------------- float arithmetic
\* floor(x * z / d) for x, z >= 0 and d > 0, without leaving 32 bits.
MulDiv(x, z, d) == (x \div d) * z + ((x % d) * z) \div d

\* x / z at resolution S, for 0 <= x and 0 < z.
Ratio(x, z) ==
    LET q1 == (x * H) \div z
        r1 == (x * H) % z
    IN  q1 * H + (r1 * H) \div z

RECURSIVE SqrtSearch(_, _, _)
SqrtSearch(n, lo, hi) ==
    IF lo >= hi THEN lo
    ELSE LET mid == (lo + hi + 1) \div 2
         IN  IF mid * mid <= n THEN SqrtSearch(n, mid, hi)
                               ELSE SqrtSearch(n, lo, mid - 1)

\* np.sqrt: the square root, NaN for a negative argument.
sqrt(n) == IF n < 0 THEN NaN ELSE SqrtSearch(n, 0, 46340)

\* (z/S)^k at resolution S.
RECURSIVE PowS(_, _)
PowS(z, k) == IF k = 0 THEN S ELSE (PowS(z, k - 1) * z) \div S

RECURSIVE RootSearch(_, _, _, _)
RootSearch(q, k, lo, hi) ==
    IF lo >= hi THEN lo
    ELSE LET mid == (lo + hi + 1) \div 2
         IN  IF PowS(mid, k) <= q THEN RootSearch(q, k, mid, hi)
                                  ELSE RootSearch(q, k, lo, mid - 1)

\* (q/S)^(1/k) at resolution S, for 0 <= q <= S.
RootS(q, k) == RootSearch(q, k, 0, S)

\* r ** gamma for a ratio r in [0, 1]:  r^(7/5) = r * (r^2)^(1/5).
PowGamma(r) == (r * RootS((r * r) \div S, gamma_den)) \div S

\* r ** ((gamma - 1) / gamma) for a ratio r in [0, 1]:  r^(2/7).
PowKappa(r) == RootS(PowS(r, gamma_num - gamma_den), gamma_num)

\* ------------------------------------------------------------------ state
VARIABLES P0, V_water0, t, y, v, a, V_air0, V_air, V_water, m, P, T,
          phase, data, F_thrust, branch, pc

vars == <<P0, V_water0, t, y, v, a, V_air0, V_air, V_water, m, P, T,
          phase, data, F_thrust, branch, pc>>

\* What the user enters: <<initial pressure, water volume>>.
Inputs ==
    { <<300000, 100000>>, <<200000, 20000>>, <<150000, 20000>>,
      <<400000, 150000>>, <<200000, 100000>>,
      <<300000, 0>>, <<150000, 0>>, <<90000, 0>>,
      <<300000, 200000>>, <<300000, 250000>> }

\* App.start_simulation: the water volume is limited to the bottle volume.
Clamp(V) == IF V > V_bottle THEN V_bottle ELSE V

\* WaterRocket.__init__ and reset.
Init ==
    \E inp \in Inputs :
        /\ P0 = inp[1]
        /\ V_water0 = Clamp(inp[2])
        /\ t = 0
        /\ y = 0
        /\ v = 0
        /\ a = 0
        /\ V_air0 = V_bottle - Clamp(inp[2])
        /\ V_air = V_bottle - Clamp(inp[2])
        /\ V_water = Clamp(inp[2])
        /\ m = m_empty + (Clamp(inp[2]) * rho_water) \div 1000
        /\ P = inp[1]
        /\ T = T0
        /\ phase = "water"
        /\ data = [t |-> <<>>, y |-> <<>>, v |-> <<>>, a |-> <<>>,
                   water_level |-> <<>>]
        /\ F_thrust = 0
        /\ branch = "none"
        /\ pc = "run"


\* ------------------------------------------------------- pieces of step()
\* Variants of the definitions below, each with one slip.
WaterLeft_GeZero == Ge(V_water, 0)

WaterLeft_Initial == Gt(V_water0, 0)

\* if self.V_water > 0
WaterLeft == Gt(V_water, 0)

Pressurised_AboveP0 == Gt(P, P0)

\* if self.P > P_atm
Pressurised == Gt(P, P_atm)

\* v_e = np.sqrt(2 * (self.P - P_atm) / rho_water), in cm/s
WaterExitVelocity == sqrt(MulDiv(2 * (P - P_atm), 10000, rho_water))

\* dm_dt = -rho_water * A_t * v_e
WaterMassFlow(v_e) ==
    IF v_e = NaN THEN NaN ELSE -((rho_water * A_t * v_e) \div 10)

\* F_thrust = v_e * -dm_dt
MomentumThrust(v_e, dm_dt) ==
    IF v_e = NaN \/ dm_dt = NaN THEN NaN ELSE (v_e * (-dm_dt)) \div 100

AirVolume_Initial(Vw) == V_bottle - V_water0

\* self.V_air = V_bottle - self.V_water
AirVolume(Vw) == V_bottle - Vw

\* self.P = self.P0 * (self.V_air0 / self.V_air) ** gamma
Pressure(Va) == MulDiv(P0, PowGamma(Ratio(V_air0, Va)), S)

\* self.V_water += (dm_dt / rho_water) * self.dt
WaterAfter(Vw, dm_dt) ==
    IF Vw = NaN \/ dm_dt = NaN THEN NaN ELSE Vw + (dm_dt * dt) \div rho_water

MassAfter_Plus(mass, dm_dt) ==
    IF mass = NaN \/ dm_dt = NaN THEN NaN ELSE mass - (dm_dt * dt) \div 1000

\* self.m += dm_dt * self.dt
MassAfter(mass, dm_dt) ==
    IF mass = NaN \/ dm_dt = NaN THEN NaN ELSE mass + (dm_dt * dt) \div 1000

\* T_exit = self.T * (P_exit / self.P0) ** ((gamma - 1) / gamma)
ExitTemperature == MulDiv(T, PowKappa(Ratio(P, P0)), S)

\* v_e = np.sqrt(2 * gamma * R_specific * T_exit / (gamma - 1)
\*               * (1 - (P_atm / P_exit) ** ((gamma - 1) / gamma))), in cm/s
AirExitVelocity(T_exit) ==
    sqrt(((((2 * gamma_num * R_specific) \div (gamma_num - gamma_den)) * T_exit)
            \div 10) * (S - PowKappa(Ratio(P_atm, P))))

\* rho_exit = P_exit / (R_specific * T_exit)
ExitDensity(T_exit) == (P * 1000) \div ((R_specific * T_exit) \div 10)

\* dm_dt = -A_t * rho_exit * v_e
AirMassFlow(rho_exit, v_e) == -((A_t * rho_exit * v_e) \div 10000)

\* F_thrust = v_e * -dm_dt + (P_exit - P_atm) * A_t
AirThrust(v_e, dm_dt) == MomentumThrust(v_e, dm_dt) + (P - P_atm) * A_t * 10

\* self.V_air += A_t * v_e * self.dt
AirVolumeAfter(Va, v_e) == Va + (A_t * v_e * dt) \div 10

\* self.T = T0 * (self.P / self.P0) ** ((gamma - 1) / gamma)
Temperature(p) == MulDiv(T0, PowKappa(Ratio(p, P0)), S)

NoThrust_Pressure == (P - P_atm) * A_t * 10

\* F_thrust = 0 in the steps that switch the phase and while coasting
NoThrust == 0

\* F_drag = 0.5 * rho_air * self.v**2 * C_d * A * np.sign(-self.v)
Drag(vel) ==
    IF vel = NaN THEN NaN
    ELSE LET vc  == (IF vel < 0 THEN -vel ELSE vel) \div 1000
             mag == MulDiv(vc * vc, (rho_air * C_d * A) \div 2000, 10000)
         IN  IF vel > 0 THEN -mag ELSE IF vel < 0 THEN mag ELSE 0

Accel_PlusWeight(F, mass, vel) ==
    IF F = NaN \/ mass = NaN \/ vel = NaN THEN NaN
    ELSE ((F + (mass * g) \div 100 - Drag(vel)) * 100) \div mass

\* F_net = F_thrust - self.m * g - F_drag ;  self.a = F_net / self.m
Accel(F, mass, vel) ==
    IF F = NaN \/ mass = NaN \/ vel = NaN THEN NaN
    ELSE ((F - (mass * g) \div 100 - Drag(vel)) * 100) \div mass

\* self.v += self.a * self.dt
VelocityAfter(vel, acc) ==
    IF vel = NaN \/ acc = NaN THEN NaN ELSE vel + acc * dt

\* self.y += self.v * self.dt
HeightAfter(h, vel) ==
    IF h = NaN \/ vel = NaN THEN NaN ELSE h + (vel * dt) \div 100

\* max(self.V_water, 0) / self.V_water0 * 100 if self.V_water0 > 0 else 0,
\* in tenths of a percent; max(nan, 0) is nan.
WaterLevel(Vw) ==
    IF V_water0 > 0
    THEN IF Vw = NaN THEN NaN
         ELSE MulDiv(IF Vw > 0 THEN Vw ELSE 0, 1000, V_water0)
    ELSE 0

\* The part of step() every branch runs: forces, Euler update, record.
CommonTail(F, mass, Vw) ==
    LET acc == Accel(F, mass, v)
        vel == VelocityAfter(v, acc)
        h   == HeightAfter(y, vel)
    IN  /\ F_thrust' = F
        /\ a' = acc
        /\ v' = vel
        /\ y' = h
        /\ t' = t + dt
        /\ data' = [t |-> Append(data.t, t + dt),
                    y |-> Append(data.y, h),
                    v |-> Append(data.v, vel),
                    a |-> Append(data.a, acc),
                    water_level |-> Append(data.water_level, WaterLevel(Vw))]

RunCond_Falling == Ge(y, 0) \/ Lt(v, 0)

\* while self.y >= 0 or self.v > 0
RunCond == Ge(y, 0) \/ Gt(v, 0)

\* run() calls step() once more
InLoop == pc = "run" /\ RunCond /\ Len(data.t) < MaxSteps

\* ------------------------------------------------------------- the steps
\* step(), phase 'water', water left: thrust from the expelled water.
StepWater ==
    /\ InLoop
    /\ phase = "water"
    /\ WaterLeft
    /\ AirVolume(V_water) # 0
    /\ LET v_e   == WaterExitVelocity
           dm_dt == WaterMassFlow(v_e)
           Vw    == WaterAfter(V_water, dm_dt)
           mass  == MassAfter(m, dm_dt)
       IN  /\ V_air' = AirVolume(V_water)
           /\ P' = Pressure(AirVolume(V_water))
           /\ V_water' = Vw
           /\ m' = mass
           /\ CommonTail(MomentumThrust(v_e, dm_dt), mass, Vw)
    /\ branch' = "water"
    /\ UNCHANGED <<P0, V_water0, V_air0, T, phase, pc>>

\* step(), phase 'water', water left, no air in the bottle: the quotient
\* V_air0 / V_air is 0.0 / 0.0 and raises ZeroDivisionError, which leaves
\* step() and run().
StepWaterRaise ==
    /\ InLoop
    /\ phase = "water"
    /\ WaterLeft
    /\ AirVolume(V_water) = 0
    /\ V_air' = AirVolume(V_water)
    /\ F_thrust' = MomentumThrust(WaterExitVelocity,
                                  WaterMassFlow(WaterExitVelocity))
    /\ branch' = "water"
    /\ pc' = "raised"
    /\ UNCHANGED <<P0, V_water0, t, y, v, a, V_air0, V_water, m, P, T,
                   phase, data>>

\* step(), phase 'water', no water left: switch to 'air'.
StepToAir ==
    /\ InLoop
    /\ phase = "water"
    /\ ~WaterLeft
    /\ phase' = "air"
    /\ CommonTail(NoThrust, m, V_water)
    /\ branch' = "to_air"
    /\ UNCHANGED <<P0, V_water0, V_air0, V_air, V_water, m, P, T, pc>>

\* step(), phase 'air', pressure above ambient: thrust from the expelled air.
StepAir ==
    /\ InLoop
    /\ phase = "air"
    /\ Pressurised
    /\ LET T_exit  == ExitTemperature
           v_e     == AirExitVelocity(T_exit)
           dm_dt   == AirMassFlow(ExitDensity(T_exit), v_e)
           Va      == AirVolumeAfter(V_air, v_e)
           mass    == MassAfter(m, dm_dt)
       IN  /\ V_air' = Va
           /\ P' = Pressure(Va)
           /\ T' = Temperature(Pressure(Va))
           /\ m' = mass
           /\ CommonTail(AirThrust(v_e, dm_dt), mass, V_water)
    /\ branch' = "air"
    /\ UNCHANGED <<P0, V_water0, V_air0, V_water, phase, pc>>

\* step(), phase 'air', pressure at or below ambient: switch to 'coasting'.
StepToCoasting ==
    /\ InLoop
    /\ phase = "air"
    /\ ~Pressurised
    /\ phase' = "coasting"
    /\ CommonTail(NoThrust, m, V_water)
    /\ branch' = "to_coasting"
    /\ UNCHANGED <<P0, V_water0, V_air0, V_air, V_water, m, P, T, pc>>

\* step(), phase 'coasting'.
StepCoasting ==
    /\ InLoop
    /\ phase = "coasting"
    /\ CommonTail(NoThrust, m, V_water)
    /\ branch' = "coasting"
    /\ UNCHANGED <<P0, V_water0, V_air0, V_air, V_water, m, P, T, phase, pc>>

\* run(): the loop condition is false, run() returns.
RunExit ==
    /\ pc = "run"
    /\ ~RunCond
    /\ pc' = "done"
    /\ UNCHANGED <<P0, V_water0, t, y, v, a, V_air0, V_air, V_water, m, P, T,
                   phase, data, F_thrust, branch>>

Next ==
    \/ StepWater
    \/ StepWaterRaise
    \/ StepToAir
    \/ StepAir
    \/ StepToCoasting
    \/ StepCoasting
    \/ RunExit

Spec == Init /\ [][Next]_vars

C3_Claim ==
    (P0 > P_atm /\ V_water0 >= 0 /\ V_water0 <= V_bottle /\ pc = "done") =>
        (Le(y, 0) /\ Le(v, 0))

\* C4: with V_water0 = V_bottle the first step completes without raising.
C4_Claim == (V_water0 = V_bottle) => pc # "raised"

\* C5: with V_water0 = 0 the first step computes no water expulsion (no
\* thrust, V_water, V_air, P and m as reset() left them) and leaves the phase
\* at air, and every recorded water level is 0.
C5_NoWaterPhase ==
    (V_water0 = 0) =>
        /\ \A i \in 1..Len(data.water_level) : data.water_level[i] = 0
        /\ (Len(data.t) = 1) =>
              /\ phase = "air"
              /\ branch = "to_air"
              /\ F_thrust = 0
              /\ V_water = V_water0
              /\ V_air = V_air0
              /\ P = P0
              /\ m = m_empty

C5_Witness ==
    V_water0 = 0 /\ Len(data.t) = 1 /\ Len(data.water_level) = 1

\* C6: no step increases m, and a step taken in phase coasting leaves m
\* exactly as it was.
C6_MassMonotone ==
    [][ /\ ~Gt(m', m)
        /\ (phase = "coasting" => m' = m) ]_vars

C6_Witness == branch = "coasting" /\ Lt(m, m_empty)

\* C7 as stated: V_water >= 0 in every reachable state.
C7_Original == (V_water # NaN) => V_water >= 0

\* C7 amended: V_water is > 0 at the start of every step that changes it, so
\* the last water-expulsion step can leave it below 0 by less than the volume
\* that step expelled, and from then on V_water never changes.
C7_Amended ==
    [][ (V_water' # V_water) => (phase = "water" /\ Gt(V_water, 0)) ]_vars

C7_Witness == Lt(V_water, 0) /\ phase # "water"

\* C8: a step that changes the phase applies zero thrust and leaves V_water,
\* V_air, m, P and T unchanged; a step that starts in phase water with
\* V_water > 0, or in phase air with P > P_atm, leaves the phase unchanged.
C8_Seam ==
    [][ /\ (phase' # phase) =>
              /\ F_thrust' = 0
              /\ a' = Accel(0, m, v)
              /\ UNCHANGED <<V_water, V_air, m, P, T, P0, V_water0, V_air0>>
        /\ (\/ phase = "water" /\ Gt(V_water, 0)
            \/ phase = "air" /\ Gt(P, P_atm)) => phase' = phase ]_vars

C8_Witness == branch = "to_coasting" /\ F_thrust = 0 /\ Gt(v, 0)

\* C9: in the record of run() only the last height can be negative, and the
\* state y < 0 with v > 0 is never reached.
C9_NegativeOnlyLast ==
    /\ \A i \in 1..(Len(data.y) - 1) : Ge(data.y[i], 0)
    /\ ~(Lt(y, 0) /\ Gt(v, 0))

C9_Witness ==
    /\ pc = "done"
    /\ Len(data.y) > 1
    /\ Lt(data.y[Len(data.y)], 0)
    /\ phase = "coasting"

\* C10: with V_water0 = 0 run() makes exactly one step: it switches to air
\* with zero thrust and gives v < 0 and y < 0, the loop exits with one record
\* entry, the phase stays air and no air thrust is ever computed.
C10_DryRun ==
    (V_water0 = 0) =>
        /\ Len(data.t) <= 1
        /\ phase # "coasting"
        /\ branch \in {"none", "to_air"}
        /\ (Len(data.t) = 1) =>
              (phase = "air" /\ F_thrust = 0 /\ Lt(v, 0) /\ Lt(y, 0) /\ ~RunCond)
        /\ (pc = "done") => (Len(data.t) = 1)

C10_Witness == V_water0 = 0 /\ pc = "done" /\ Len(data.t) = 1 /\ phase = "air"

====
